---------------------------- MODULE Spec2Model ----------------------------
(***************************************************************************)
(* A model of the Quoridor rules engine of src/quoridor/__init__.py:       *)
(* the board of Squares with their two fence flags, the per-direction      *)
(* fence queries, pawn-move legality, fence-placement legality with its    *)
(* breadth-first reachability check, and Game.start / Game.move.           *)
(*                                                                         *)
(* A Square is the pair <<x, y>> (column, row), both 0-based.  The board   *)
(* of the program is 9 x 9; the model keeps the board's shape and start    *)
(* layout (pawns in the middle column of the first and last row, goals     *)
(* the opposite rows) on a Width x Height board.                           *)
(***************************************************************************)
EXTENDS Integers, Sequences, FiniteSets

\* ------------------------------------------------------------- bounds
\* Board size of the model (the program's _setup uses 9 x 9).
Width == 3
Height == 3
\* Game.move is not modelled once `turn` has reached MaxTurn.
MaxTurn == 4
\* Fence moves are not modelled once MaxFences flags are set.
MaxFences == 3
\* The boards SpecBoard starts from have at most BoardFences flags set.
BoardFences == 2

\* ------------------------------------------------------------- constants
n_players == 2
n_fences == 20
\* Game.turn before start() is None; the started game counts from 1.
TurnNone == 0

\* Board.get's "no square", and the value of a lookup that raised.
None == <<>>

VARIABLES
    turn,                  \* Game.turn (TurnNone before start)
    is_ingame,             \* Game.is_ingame
    pawn,                  \* pawn[i+1] = Game.players[i].pawn; <<>> before start
    remaining_fences,      \* remaining_fences[i+1] = players[i].remaining_fences
    has_horizontal_fence,  \* the Squares whose has_horizontal_fence is True
    has_vertical_fence,    \* the Squares whose has_vertical_fence is True
    diverged               \* a call of Game.move is in a loop it never leaves

vars == <<turn, is_ingame, pawn, remaining_fences,
          has_horizontal_fence, has_vertical_fence, diverged>>

\* ------------------------------------------------------------- CardinalPoint
\* The members of the enum, in definition (iteration) order.
CardinalPoint == <<"west", "east", "north", "south">>

\* orthogonal_points with the two branches exchanged: the points of the same
\* axis.
orthogonal_points_same_axis(point) ==
    IF point \in {"north", "south"} THEN <<"north", "south">>
    ELSE <<"west", "east">>

orthogonal_points(point) ==
    IF point \in {"north", "south"} THEN <<"west", "east">>
    ELSE <<"north", "south">>

\* ------------------------------------------------------------- Board
Squares == (0 .. Width - 1) \X (0 .. Height - 1)

get(y, x) ==
    IF 0 <= x /\ x < Width /\ 0 <= y /\ y < Height THEN <<x, y>> ELSE None

get_row(y) == {sq \in Squares : sq[2] = y}

\* Board.__getitem__ on the already decoded indices x = ord(c0) - ord('a'),
\* y = int(c1) - 1: table[y][x] is a Python list lookup, which counts a
\* negative index from the end and raises IndexError outside [-len, len).
Board_getitem(x, y) ==
    IF -Height <= y /\ y < Height /\ -Width <= x /\ x < Width
    THEN <<x % Width, y % Height>>
    ELSE None

\* ------------------------------------------------------------- Square
has_pawn(sq) == \E i \in 1 .. Len(pawn) : pawn[i] = sq

west_square(sq) == get(sq[2], sq[1] - 1)
east_square(sq) == get(sq[2], sq[1] + 1)
north_square(sq) == get(sq[2] - 1, sq[1])
south_square(sq) == get(sq[2] + 1, sq[1])

\* west_fence looking below the west neighbour instead of above it.
west_fence_south(sq) ==
    \/ (west_square(sq) # None /\ west_square(sq) \in has_vertical_fence)
    \/ (/\ west_square(sq) # None
        /\ south_square(west_square(sq)) # None
        /\ south_square(west_square(sq)) \in has_vertical_fence)

west_fence(sq) ==
    \/ (west_square(sq) # None /\ west_square(sq) \in has_vertical_fence)
    \/ (/\ west_square(sq) # None
        /\ north_square(west_square(sq)) # None
        /\ north_square(west_square(sq)) \in has_vertical_fence)

\* east_fence looking at the square below instead of the square above.
east_fence_south(sq) ==
    \/ sq \in has_vertical_fence
    \/ (south_square(sq) # None /\ south_square(sq) \in has_vertical_fence)

east_fence(sq) ==
    \/ sq \in has_vertical_fence
    \/ (north_square(sq) # None /\ north_square(sq) \in has_vertical_fence)

north_fence(sq) ==
    \/ (north_square(sq) # None /\ north_square(sq) \in has_horizontal_fence)
    \/ (/\ north_square(sq) # None
        /\ west_square(north_square(sq)) # None
        /\ west_square(north_square(sq)) \in has_horizontal_fence)

south_fence(sq) ==
    \/ sq \in has_horizontal_fence
    \/ (west_square(sq) # None /\ west_square(sq) \in has_horizontal_fence)

square_at(sq, point) ==
    CASE point = "west" -> west_square(sq)
      [] point = "east" -> east_square(sq)
      [] point = "south" -> south_square(sq)
      [] point = "north" -> north_square(sq)

has_fence_at(sq, point) ==
    CASE point = "west" -> west_fence(sq)
      [] point = "east" -> east_fence(sq)
      [] point = "south" -> south_fence(sq)
      [] point = "north" -> north_fence(sq)

is_connected_with_square_at(sq, cardinal_point) ==
    square_at(sq, cardinal_point) # None /\ ~has_fence_at(sq, cardinal_point)

\* The generator's yields, in order.
RECURSIVE cardinal_neighbors_from(_, _)
cardinal_neighbors_from(sq, k) ==
    IF k > Len(CardinalPoint) THEN <<>>
    ELSE (IF is_connected_with_square_at(sq, CardinalPoint[k])
          THEN <<square_at(sq, CardinalPoint[k])>> ELSE <<>>)
         \o cardinal_neighbors_from(sq, k + 1)

cardinal_neighbors(sq) == cardinal_neighbors_from(sq, 1)


\* ------------------------------------------------------------- Game
\* Game.current_player: the index into Game.players.
current_player == turn % n_players

\* Player.goals as _setup assigns them: players[0] the last row, players[1]
\* the first row.
goals(i) == IF i = 0 THEN get_row(Height - 1) ELSE get_row(0)

\* Column 'e' of the 9-wide board is its middle column.
StartColumn == (Width - 1) \div 2

\* ------------------------------------------------------------- Move_MovePawn
\* MovePawn_direction without the `continue` after the straight jump: the
\* squares beside square_1 are added as well.
MovePawn_direction_no_continue(square_0, cardinal_point) ==
    IF ~is_connected_with_square_at(square_0, cardinal_point) THEN {}
    ELSE LET square_1 == square_at(square_0, cardinal_point) IN
         IF has_pawn(square_1)
         THEN (IF is_connected_with_square_at(square_1, cardinal_point)
               THEN {square_at(square_1, cardinal_point)} ELSE {})
              \cup
              {square_at(square_1, orthogonal_points(cardinal_point)[k]) :
                 k \in {j \in 1 .. 2 :
                          is_connected_with_square_at(
                              square_1, orthogonal_points(cardinal_point)[j])}}
         ELSE {square_1}

\* MovePawn_direction without the loop over the orthogonal points: no square
\* is added when the straight jump is unavailable.
MovePawn_direction_no_diagonal(square_0, cardinal_point) ==
    IF ~is_connected_with_square_at(square_0, cardinal_point) THEN {}
    ELSE LET square_1 == square_at(square_0, cardinal_point) IN
         IF has_pawn(square_1)
         THEN IF is_connected_with_square_at(square_1, cardinal_point)
              THEN {square_at(square_1, cardinal_point)}
              ELSE {}
         ELSE {square_1}

\* MovePawn_direction without the test of square_1.has_pawn: the neighbour is
\* added whether or not a pawn stands on it.
MovePawn_direction_ignoring_pawn(square_0, cardinal_point) ==
    IF ~is_connected_with_square_at(square_0, cardinal_point) THEN {}
    ELSE {square_at(square_0, cardinal_point)}

\* One round of the loop over CardinalPoint in check_valid: the squares that
\* round adds to possible_moves.
MovePawn_direction(square_0, cardinal_point) ==
    IF ~is_connected_with_square_at(square_0, cardinal_point) THEN {}
    ELSE LET square_1 == square_at(square_0, cardinal_point) IN
         IF has_pawn(square_1)
         THEN IF is_connected_with_square_at(square_1, cardinal_point)
              THEN {square_at(square_1, cardinal_point)}
              ELSE {square_at(square_1, orthogonal_points(cardinal_point)[k]) :
                      k \in {j \in 1 .. 2 :
                               is_connected_with_square_at(
                                   square_1, orthogonal_points(cardinal_point)[j])}}
         ELSE {square_1}

possible_moves ==
    UNION {MovePawn_direction(pawn[current_player + 1], CardinalPoint[k]) :
             k \in 1 .. Len(CardinalPoint)}

MovePawn_check_valid(square) == square \in possible_moves

\* ------------------------------------------------------------- fences
\* _can_player_reach_goal.  `while queue:` tests the Queue object itself, which
\* defines neither __bool__ nor __len__ and so is always true: once the queue
\* is empty a round of the loop reads width = 0, changes nothing and is
\* followed by an identical round, so the call never returns ("diverges") and
\* the final `return False` is never reached.
RECURSIVE bfs_while(_, _, _), bfs_for(_, _, _, _)
bfs_while(queue, visited, goal) ==
    IF Len(queue) = 0 THEN "diverges"
    ELSE bfs_for(Len(queue), queue, visited, goal)

bfs_for(w, queue, visited, goal) ==
    IF w = 0 THEN bfs_while(queue, visited, goal)
    ELSE LET square == Head(queue) IN
         IF square \in goal THEN "True"
         ELSE IF square \notin visited
              THEN bfs_for(w - 1, Tail(queue) \o cardinal_neighbors(square),
                           visited \cup {square}, goal)
              ELSE bfs_for(w - 1, Tail(queue), visited, goal)

can_player_reach_goal(i) == bfs_while(<<pawn[i + 1]>>, {}, goals(i))

\* The loop over self.game.players of both fence check_valid methods, from
\* player i on.
RECURSIVE all_players_reach_goal(_)
all_players_reach_goal(i) ==
    IF i >= Len(pawn) THEN "True"
    ELSE LET r == can_player_reach_goal(i) IN
         IF r = "True" THEN all_players_reach_goal(i + 1) ELSE r

\* Both fence check_valid methods.  `reach` is the value of their loop over the
\* players, all_players_reach_goal(0): it reads the pawns and the flags only,
\* not the square of the move, so a caller evaluates it once for every square.
\* PlaceFenceHorizontally.check_valid with the loop over the players ahead of
\* the two flag tests.
PlaceFenceHorizontally_check_valid_reach_first(square, reach) ==
    IF reach # "True" THEN reach
    ELSE IF square \in has_horizontal_fence THEN "False"
    ELSE IF east_square(square) # None
            /\ east_square(square) \in has_horizontal_fence THEN "False"
    ELSE "True"

PlaceFenceHorizontally_check_valid(square, reach) ==
    IF square \in has_horizontal_fence THEN "False"
    ELSE IF east_square(square) # None
            /\ east_square(square) \in has_horizontal_fence THEN "False"
    ELSE reach

PlaceFenceVertically_check_valid(square, reach) ==
    IF square \in has_vertical_fence THEN "False"
    ELSE IF south_square(square) # None
            /\ south_square(square) \in has_vertical_fence THEN "False"
    ELSE reach

\* ------------------------------------------------------------- Move
\* Move.parse on the string whose first character decodes to column index x,
\* whose second decodes to row index y and whose third character, if any, is
\* `suffix`.
parse(x, y, suffix) ==
    LET coordinate == Board_getitem(x, y) IN
    IF coordinate = None THEN [kind |-> "IndexError", square |-> None]
    ELSE IF suffix = "" THEN [kind |-> "pawn", square |-> coordinate]
    ELSE IF suffix = "h" THEN [kind |-> "horizontal", square |-> coordinate]
    ELSE IF suffix = "v" THEN [kind |-> "vertical", square |-> coordinate]
    ELSE [kind |-> "ValueError", square |-> None]

check_valid(m, reach) ==
    CASE m.kind = "pawn" ->
           IF MovePawn_check_valid(m.square) THEN "True" ELSE "False"
      [] m.kind = "horizontal" ->
           PlaceFenceHorizontally_check_valid(m.square, reach)
      [] m.kind = "vertical" ->
           PlaceFenceVertically_check_valid(m.square, reach)

\* m.check_valid() as a call that is also allowed to assign while it validates
\* an acceptable move: it applies the move.
check_valid_call_applying(m, reach) ==
    [result |-> check_valid(m, reach),
     state |-> IF check_valid(m, reach) = "True"
               THEN [has_horizontal_fence |->
                         IF m.kind = "horizontal"
                         THEN has_horizontal_fence \cup {m.square}
                         ELSE has_horizontal_fence,
                     has_vertical_fence |->
                         IF m.kind = "vertical"
                         THEN has_vertical_fence \cup {m.square}
                         ELSE has_vertical_fence,
                     pawn |-> IF m.kind = "pawn"
                              THEN [pawn EXCEPT ![current_player + 1] = m.square]
                              ELSE pawn,
                     turn |-> turn, is_ingame |-> is_ingame]
               ELSE [has_horizontal_fence |-> has_horizontal_fence,
                     has_vertical_fence |-> has_vertical_fence,
                     pawn |-> pawn, turn |-> turn, is_ingame |-> is_ingame]]

\* m.check_valid() as a call: what it returns and the fields of the game after
\* it.  possible_moves, visited and queue are locals of the call; no statement
\* of the three check_valid methods, of _can_player_reach_goal or of the Square
\* properties they read assigns to a flag, a pawn, turn or is_ingame.
check_valid_call(m, reach) ==
    [result |-> check_valid(m, reach),
     state |-> [has_horizontal_fence |-> has_horizontal_fence,
                has_vertical_fence |-> has_vertical_fence,
                pawn |-> pawn, turn |-> turn, is_ingame |-> is_ingame]]

\* How the call Game.move(s) ends in the current state, for the string that
\* decodes to x, y, suffix: "Exception" (the game has not started),
\* "IndexError" or "ValueError" (from Move.parse), "accepted" (check_valid
\* returned True: the move is applied and the turn ended), "invalid"
\* (check_valid returned False) or "diverges" (check_valid never returns).
move_result(x, y, suffix, reach) ==
    IF turn = TurnNone THEN "Exception"
    ELSE LET m == parse(x, y, suffix) IN
         IF m.kind \in {"IndexError", "ValueError"} THEN m.kind
         ELSE LET valid == check_valid_call(m, reach).result IN
              CASE valid = "True" -> "accepted"
                [] valid = "False" -> "invalid"
                [] valid = "diverges" -> "diverges"

\* The inputs of Game.move, <<decoded column, decoded row, third character>>
\* ("" when the string has two characters): every move on every square of the
\* board; the character before 'a' and the row '0', with every kind of move;
\* the first column and the first row past the board; a third character that
\* is neither 'h' nor 'v'.
MoveInputs ==
    ((Squares \cup {<<-1, 0>>, <<0, -1>>}) \X {"", "h", "v"})
        \cup {<<<<Width, 0>>, "">>, <<<<0, Height>>, "">>, <<<<0, 0>>, "x">>}

FenceCount == Cardinality(has_horizontal_fence) + Cardinality(has_vertical_fence)

Init ==
    /\ turn = TurnNone
    /\ is_ingame = FALSE
    /\ pawn = <<>>
    /\ remaining_fences = <<>>
    /\ has_horizontal_fence = {}
    /\ has_vertical_fence = {}
    /\ diverged = FALSE

\* Game.start (the first call; a restart is not modelled).
Start ==
    /\ turn = TurnNone
    /\ ~diverged
    /\ has_horizontal_fence' = {}
    /\ has_vertical_fence' = {}
    /\ pawn' = <<Board_getitem(StartColumn, 0),
                 Board_getitem(StartColumn, Height - 1)>>
    /\ remaining_fences' = <<n_fences \div n_players, n_fences \div n_players>>
    /\ turn' = 1
    /\ is_ingame' = TRUE
    /\ UNCHANGED diverged

\* The state of the game as one record.
GameState ==
    [turn |-> turn, is_ingame |-> is_ingame, pawn |-> pawn,
     remaining_fences |-> remaining_fences,
     has_horizontal_fence |-> has_horizontal_fence,
     has_vertical_fence |-> has_vertical_fence,
     diverged |-> diverged]

\* m.apply() whose fence moves take a fence from the current player's
\* inventory.
Move_apply_decrementing(m) ==
    CASE m.kind = "pawn" ->
           [GameState EXCEPT !.pawn[current_player + 1] = m.square]
      [] m.kind = "horizontal" ->
           [GameState EXCEPT
              !.has_horizontal_fence = has_horizontal_fence \cup {m.square},
              !.remaining_fences[current_player + 1] = @ - 1]
      [] m.kind = "vertical" ->
           [GameState EXCEPT
              !.has_vertical_fence = has_vertical_fence \cup {m.square},
              !.remaining_fences[current_player + 1] = @ - 1]

\* m.apply() whose horizontal fence move sets both flags of the square.
Move_apply_both_flags(m) ==
    CASE m.kind = "pawn" ->
           [GameState EXCEPT !.pawn[current_player + 1] = m.square]
      [] m.kind = "horizontal" ->
           [GameState EXCEPT
              !.has_horizontal_fence = has_horizontal_fence \cup {m.square},
              !.has_vertical_fence = has_vertical_fence \cup {m.square}]
      [] m.kind = "vertical" ->
           [GameState EXCEPT
              !.has_vertical_fence = has_vertical_fence \cup {m.square}]

\* m.apply() whose fence moves carry the fence over: the flag of the square is
\* set and the other flags of that orientation are reset.
Move_apply_moving_fence(m) ==
    CASE m.kind = "pawn" ->
           [GameState EXCEPT !.pawn[current_player + 1] = m.square]
      [] m.kind = "horizontal" ->
           [GameState EXCEPT !.has_horizontal_fence = {m.square}]
      [] m.kind = "vertical" ->
           [GameState EXCEPT !.has_vertical_fence = {m.square}]

\* m.apply(), of the three kinds of move: the state after it.
Move_apply(m) ==
    CASE m.kind = "pawn" ->
           [GameState EXCEPT !.pawn[current_player + 1] = m.square]
      [] m.kind = "horizontal" ->
           [GameState EXCEPT
              !.has_horizontal_fence = has_horizontal_fence \cup {m.square}]
      [] m.kind = "vertical" ->
           [GameState EXCEPT
              !.has_vertical_fence = has_vertical_fence \cup {m.square}]

\* Game._end_turn() that leaves the turn counter alone.
end_turn_keeps_turn(st) ==
    IF st.pawn[(st.turn % n_players) + 1] \in goals(st.turn % n_players)
    THEN [st EXCEPT !.is_ingame = FALSE]
    ELSE st

\* Game._end_turn() in state st (with _end): the state after it.
end_turn(st) ==
    IF st.pawn[(st.turn % n_players) + 1] \in goals(st.turn % n_players)
    THEN [st EXCEPT !.is_ingame = FALSE]
    ELSE [st EXCEPT !.turn = st.turn + 1]

\* Game.move that marks the game as running before it tests whether the game
\* has started.
Game_move_marks_ingame(x, y, suffix, reach) ==
    LET result == move_result(x, y, suffix, reach) IN
    CASE result = "accepted" -> end_turn(Move_apply(parse(x, y, suffix)))
      [] result = "diverges" -> [GameState EXCEPT !.diverged = TRUE]
      [] result = "Exception" -> [GameState EXCEPT !.is_ingame = TRUE]
      [] OTHER -> GameState

\* Game.move that ends the turn after an invalid move as well.
Game_move_invalid_ends_turn(x, y, suffix, reach) ==
    LET result == move_result(x, y, suffix, reach) IN
    CASE result = "accepted" -> end_turn(Move_apply(parse(x, y, suffix)))
      [] result = "diverges" -> [GameState EXCEPT !.diverged = TRUE]
      [] result = "invalid" -> [GameState EXCEPT !.turn = turn + 1]
      [] OTHER -> GameState

\* Game.move(s), for the string that decodes to x, y, suffix: the state after
\* the call (the state in which the call never returns, when it diverges).
Game_move(x, y, suffix, reach) ==
    LET result == move_result(x, y, suffix, reach) IN
    CASE result = "accepted" -> end_turn(Move_apply(parse(x, y, suffix)))
      [] result = "diverges" -> [GameState EXCEPT !.diverged = TRUE]
      [] OTHER -> GameState

\* The step to state `after`.
StepTo(after) ==
    /\ turn' = after.turn
    /\ is_ingame' = after.is_ingame
    /\ pawn' = after.pawn
    /\ remaining_fences' = after.remaining_fences
    /\ has_horizontal_fence' = after.has_horizontal_fence
    /\ has_vertical_fence' = after.has_vertical_fence
    /\ diverged' = after.diverged

\* A call of Game.move, with any of the inputs.  No call follows one that
\* never returns; calls at turn MaxTurn, and fence moves on a board of
\* MaxFences fences, are outside the model.  (The reachability loop reads the
\* state only, and is evaluated once for all the inputs.)
Move ==
    /\ ~diverged
    /\ turn < MaxTurn
    /\ \E reach \in {all_players_reach_goal(0)} :
       \E i \in MoveInputs :
           /\ (i[2] = "" \/ FenceCount < MaxFences)
           /\ \E after \in {Game_move(i[1][1], i[1][2], i[2], reach)} :
                  StepTo(after)

Next ==
    \/ Start
    \/ Move

Spec == Init /\ [][Next]_vars

\* ------------------------------------------------------------- any board
\* The legality of a move is a function of the flags, the two pawns and the
\* player to move.  SpecBoard starts from any of these that a game reaches
\* after start(): any BoardFences flags (a set of flags is placed west to
\* east and north to south, the fence that closes the last open path last),
\* the pawns on any two different squares, either player to move; a pawn on
\* its own goal row has ended the game on its owner's turn, and the turn
\* counter has not moved since.  Calls of Game.move follow.
RECURSIVE FlagSets(_)
FlagSets(k) ==
    IF k = 0 THEN {{}}
    ELSE LET smaller == FlagSets(k - 1) IN
         smaller \cup {set \cup {<<sq, o>>} :
                         set \in smaller, sq \in Squares, o \in {"h", "v"}}

BoardTurns == {MaxTurn - 1, MaxTurn}

InitBoard ==
    /\ \E flags \in FlagSets(BoardFences) :
           /\ has_horizontal_fence = {f[1] : f \in {g \in flags : g[2] = "h"}}
           /\ has_vertical_fence = {f[1] : f \in {g \in flags : g[2] = "v"}}
    /\ turn \in BoardTurns
    /\ pawn \in {p \in Squares \X Squares :
                   /\ p[1] # p[2]
                   /\ \A i \in 0 .. n_players - 1 :
                          p[i + 1] \in goals(i) => turn % n_players = i}
    /\ is_ingame = (\A i \in 0 .. n_players - 1 : pawn[i + 1] \notin goals(i))
    /\ remaining_fences = <<n_fences \div n_players, n_fences \div n_players>>
    /\ diverged = FALSE

SpecBoard == InitBoard /\ [][Move]_vars

\* ------------------------------------------------------------- properties
Started == turn # TurnNone

Players == 0 .. n_players - 1

\* The squares across an open edge from a: an edge of the board from a to its
\* neighbour at `point` is open when the neighbour exists and
\* has_fence_at(a, point) is false.
OpenNeighbours(a) ==
    {square_at(a, CardinalPoint[k]) :
       k \in {j \in 1 .. Len(CardinalPoint) :
                is_connected_with_square_at(a, CardinalPoint[j])}}

\* The squares joined to `set` by a path of open edges.
RECURSIVE OpenPathClosure(_)
OpenPathClosure(set) ==
    LET next == {b : b \in set \cup UNION {OpenNeighbours(a) : a \in set}}
    IN IF next = set THEN set ELSE OpenPathClosure(next)

HasOpenPath(i) == OpenPathClosure({pawn[i + 1]}) \cap goals(i) # {}

EveryPlayerHasOpenPath == \A i \in Players : HasOpenPath(i)

FencePlaced ==
    \/ has_horizontal_fence' # has_horizontal_fence
    \/ has_vertical_fence' # has_vertical_fence

\* C1 (as claimed): right after a fence move has been accepted and applied,
\* every player's pawn has a path of open edges to a square of its goal row,
\* the new fence included.
C1_NoTrapAfterFence ==
    [][(Started /\ FencePlaced) => EveryPlayerHasOpenPath']_vars

\* C2 (as claimed): every call of Game.move returns (or raises); the
\* reachability check never loops forever.
C2_ValidationTerminates == ~diverged

\* C3: the two pawns are on different squares, and Move_MovePawn.check_valid
\* accepts no square that holds a pawn.
C3_PawnExclusivity ==
    Started =>
        /\ pawn[1] # pawn[2]
        /\ \A sq \in Squares : MovePawn_check_valid(sq) => ~has_pawn(sq)

\* C3's case: the pawn to move stands next to the other pawn across an open
\* edge, and a pawn has already jumped (the pawn of players[1], which started
\* on the last row, is nearer the first row than the pawn of players[0]).
C3_Witness ==
    /\ Started
    /\ \E k \in 1 .. Len(CardinalPoint) :
           /\ is_connected_with_square_at(pawn[current_player + 1], CardinalPoint[k])
           /\ has_pawn(square_at(pawn[current_player + 1], CardinalPoint[k]))
    /\ pawn[2][2] < pawn[1][2]

\* The pawn of the player to move.
MoverPawn == pawn[current_player + 1]

\* The reference algorithm of the pawn-move resolver, stated on the board's
\* queries: neighbour, edge blocked, open neighbour.
Directions == {"west", "east", "north", "south"}

Opposite(d) ==
    CASE d = "west" -> "east"
      [] d = "east" -> "west"
      [] d = "north" -> "south"
      [] d = "south" -> "north"

Orthogonals(d) == Directions \ {d, Opposite(d)}

\* The neighbour of c at d, when it exists and the edge toward it is not
\* blocked; no more than one square.
OpenNeighbor(c, d) ==
    IF square_at(c, d) # None /\ ~has_fence_at(c, d) THEN {square_at(c, d)}
    ELSE {}

HoldsPawn(c) == Started /\ (c = pawn[1] \/ c = pawn[2])

RefContribution(P, d) ==
    IF OpenNeighbor(P, d) = {} THEN {}
    ELSE LET N == square_at(P, d) IN
         IF ~HoldsPawn(N) THEN {N}
         ELSE IF OpenNeighbor(N, d) # {} THEN OpenNeighbor(N, d)
         ELSE UNION {OpenNeighbor(N, o) : o \in Orthogonals(d)}

RefDestinations == UNION {RefContribution(MoverPawn, d) : d \in Directions}

\* C4: Move_MovePawn.check_valid accepts exactly the squares of the reference
\* algorithm's destination set.
C4_PawnLegalityIsReference ==
    Started =>
        \A target \in Squares :
            MovePawn_check_valid(target) <=> target \in RefDestinations

\* C4's case: the pawn to move has the other pawn next to it across an open
\* edge, cannot jump straight over it, and can step around it.
C4_Witness ==
    /\ Started
    /\ \E d \in Directions :
           /\ OpenNeighbor(MoverPawn, d) # {}
           /\ HoldsPawn(square_at(MoverPawn, d))
           /\ OpenNeighbor(square_at(MoverPawn, d), d) = {}
           /\ \E o \in Orthogonals(d) :
                  OpenNeighbor(square_at(MoverPawn, d), o) # {}
    /\ has_horizontal_fence \cup has_vertical_fence # {}

\* The other pawn stands on the neighbour of the mover's pawn at d, and the
\* edge from there onward at d is open.
OpponentAhead(d) ==
    /\ square_at(MoverPawn, d) # None
    /\ HoldsPawn(square_at(MoverPawn, d))
    /\ OpenNeighbor(square_at(MoverPawn, d), d) # {}

JumpOnly(d) ==
    /\ MovePawn_direction(MoverPawn, d) =
           OpenNeighbor(square_at(MoverPawn, d), d)
    /\ \A o \in Orthogonals(d) :
           square_at(square_at(MoverPawn, d), o) # None =>
               square_at(square_at(MoverPawn, d), o)
                   \notin MovePawn_direction(MoverPawn, d)

\* C5 (as claimed): whenever the opponent is on the neighbour at d and the
\* edge past it at d is open, direction d contributes exactly the continuation
\* square and no square beside the opponent.
C5_JumpExclusivity_AsClaimed ==
    Started => \A d \in Directions : OpponentAhead(d) => JumpOnly(d)

\* C5 (amended): the same, when also the edge from the mover's square to the
\* opponent's square is open.
C5_JumpExclusivity ==
    Started =>
        \A d \in Directions :
            (OpenNeighbor(MoverPawn, d) # {} /\ OpponentAhead(d)) => JumpOnly(d)

\* C5's case: a straight jump is open and a square beside the opponent is
\* open too.
C5_Witness ==
    /\ Started
    /\ \E d \in Directions :
           /\ OpenNeighbor(MoverPawn, d) # {}
           /\ OpponentAhead(d)
           /\ \E o \in Orthogonals(d) :
                  OpenNeighbor(square_at(MoverPawn, d), o) # {}

\* The mover's pawn and the other pawn are joined by an open edge at d and the
\* straight continuation past the other pawn is unavailable.
JumpBlocked(d) ==
    /\ OpenNeighbor(MoverPawn, d) # {}
    /\ HoldsPawn(square_at(MoverPawn, d))
    /\ OpenNeighbor(square_at(MoverPawn, d), d) = {}

\* C6: when the straight jump at d is unavailable, every open neighbour of the
\* opponent's square at a direction orthogonal to d is an accepted target, and
\* the straight-continuation square is not.
C6_DiagonalEnablement ==
    Started =>
        \A d \in Directions :
            JumpBlocked(d) =>
                /\ \A o \in Orthogonals(d) :
                       \A sq \in OpenNeighbor(square_at(MoverPawn, d), o) :
                           MovePawn_check_valid(sq)
                /\ square_at(square_at(MoverPawn, d), d) # None =>
                       ~MovePawn_check_valid(square_at(square_at(MoverPawn, d), d))

\* C6's case: the continuation square exists and a fence blocks the edge to
\* it, and both squares beside the opponent are open.
C6_Witness ==
    /\ Started
    /\ \E d \in Directions :
           /\ JumpBlocked(d)
           /\ square_at(square_at(MoverPawn, d), d) # None
           /\ \A o \in Orthogonals(d) :
                  OpenNeighbor(square_at(MoverPawn, d), o) # {}

\* A unit edge of the board: the set of the two squares it joins.
Edge(a, b) == {a, b}

\* The unit edges that the per-direction query reports on: from sq to its
\* neighbour at d, when that neighbour exists.
QueriedEdges ==
    {<<sq, d>> \in Squares \X Directions : square_at(sq, d) # None}

\* The geometry as claimed: a vertical flag on <<x, y>> covers the edges
\* between column x-1 and column x in rows y and y-1; a horizontal flag on
\* <<x, y>> covers the edges between row y-1 and row y in columns x and x-1.
ClaimedVerticalSpan(anchor) ==
    {Edge(<<anchor[1] - 1, r>>, <<anchor[1], r>>) :
       r \in {anchor[2], anchor[2] - 1}}

ClaimedHorizontalSpan(anchor) ==
    {Edge(<<c, anchor[2] - 1>>, <<c, anchor[2]>>) :
       c \in {anchor[1], anchor[1] - 1}}

\* The geometry of the four fence queries: a vertical flag on <<x, y>> covers
\* the edges between column x and column x+1 in rows y and y+1; a horizontal
\* flag on <<x, y>> covers the edges between row y and row y+1 in columns x
\* and x+1.
VerticalSpan(anchor) ==
    {Edge(<<anchor[1], r>>, <<anchor[1] + 1, r>>) :
       r \in {anchor[2], anchor[2] + 1}}

HorizontalSpan(anchor) ==
    {Edge(<<c, anchor[2]>>, <<c, anchor[2] + 1>>) :
       c \in {anchor[1], anchor[1] + 1}}

\* C7 (as claimed): the query of an edge reports it blocked exactly when a
\* set flag covers it under the claimed geometry (toward column x-1 and row
\* y-1 of the anchor).
C7_WallGeometry_AsClaimed ==
    \A q \in QueriedEdges :
        has_fence_at(q[1], q[2]) <=>
            \/ \E anchor \in has_vertical_fence :
                   Edge(q[1], square_at(q[1], q[2])) \in ClaimedVerticalSpan(anchor)
            \/ \E anchor \in has_horizontal_fence :
                   Edge(q[1], square_at(q[1], q[2])) \in ClaimedHorizontalSpan(anchor)

\* C7 (amended): the query of an edge reports it blocked exactly when a set
\* flag covers it, where a vertical flag on <<x, y>> covers the edges between
\* columns x and x+1 in rows y and y+1 and a horizontal flag on <<x, y>> the
\* edges between rows y and y+1 in columns x and x+1.
C7_WallGeometry ==
    \A q \in QueriedEdges :
        has_fence_at(q[1], q[2]) <=>
            \/ \E anchor \in has_vertical_fence :
                   Edge(q[1], square_at(q[1], q[2])) \in VerticalSpan(anchor)
            \/ \E anchor \in has_horizontal_fence :
                   Edge(q[1], square_at(q[1], q[2])) \in HorizontalSpan(anchor)

\* C7's case: a vertical and a horizontal flag are set on anchors whose two
\* covered edges both exist.
C7_Witness ==
    /\ \E anchor \in has_vertical_fence :
           anchor[1] + 1 < Width /\ anchor[2] + 1 < Height
    /\ \E anchor \in has_horizontal_fence :
           anchor[1] + 1 < Width /\ anchor[2] + 1 < Height

\* C8 (as claimed): no two horizontal fences are anchored on horizontally
\* adjacent squares of a row and no two vertical fences on vertically adjacent
\* squares of a column.
C8_NoOverlappingFences ==
    /\ \A sq \in has_horizontal_fence :
           east_square(sq) = None \/ east_square(sq) \notin has_horizontal_fence
    /\ \A sq \in has_vertical_fence :
           south_square(sq) = None \/ south_square(sq) \notin has_vertical_fence

ReachResults == {"True", "False", "diverges"}

\* The inputs that ask for a fence of an orientation on a square whose flag of
\* that orientation is set.
DuplicateInputs ==
    {i \in MoveInputs :
       \/ i[2] = "h" /\ Board_getitem(i[1][1], i[1][2]) \in has_horizontal_fence
       \/ i[2] = "v" /\ Board_getitem(i[1][1], i[1][2]) \in has_vertical_fence}

\* C9: a fence move on a square whose flag of that orientation is set is
\* rejected whatever the reachability check would yield (also when it would
\* never return), and the rejected call changes nothing.
C9_DuplicateRejectedFirst ==
    Started =>
        \A i \in DuplicateInputs : \A r \in ReachResults :
            /\ check_valid(parse(i[1][1], i[1][2], i[2]), r) = "False"
            /\ Game_move(i[1][1], i[1][2], i[2], r) = GameState

\* C9's case: some player has no open path to its goal row (the reachability
\* check would not return), a flag of each orientation is set, and fence moves
\* are still made.
C9_Witness ==
    /\ Started
    /\ ~EveryPlayerHasOpenPath
    /\ has_horizontal_fence # {}
    /\ has_vertical_fence # {}
    /\ FenceCount < MaxFences
    /\ turn < MaxTurn

\* The inputs for which check_valid returns False.
InvalidInputs ==
    LET reach == all_players_reach_goal(0) IN
    {i \in MoveInputs : move_result(i[1][1], i[1][2], i[2], reach) = "invalid"}

\* C10: a call of Game.move whose move check_valid rejects leaves the turn
\* counter (and so the current player), every flag, every pawn and is_ingame
\* as they were.
C10_IllegalMoveChangesNothing ==
    Started =>
        \A reach \in {all_players_reach_goal(0)} :
            \A i \in MoveInputs :
                move_result(i[1][1], i[1][2], i[2], reach) = "invalid" =>
                    \E after \in {Game_move(i[1][1], i[1][2], i[2], reach)} :
                        /\ after.turn = turn
                        /\ after.turn % n_players = current_player
                        /\ after.is_ingame = is_ingame
                        /\ after.pawn = pawn
                        /\ after.has_horizontal_fence = has_horizontal_fence
                        /\ after.has_vertical_fence = has_vertical_fence

\* C10's case: a pawn move, a horizontal and a vertical fence move are each
\* rejected in a state where calls are made.
C10_Witness ==
    /\ Started
    /\ turn < MaxTurn
    /\ FenceCount < MaxFences
    /\ \A suffix \in {"", "h", "v"} : \E i \in InvalidInputs : i[2] = suffix

\* The moves Move.parse builds from the inputs.
ParsedMoves ==
    {m \in {parse(i[1][1], i[1][2], i[2]) : i \in MoveInputs} :
       m.kind \in {"pawn", "horizontal", "vertical"}}

\* The fields of the game that a validation could touch.
ValidationFrame ==
    [has_horizontal_fence |-> has_horizontal_fence,
     has_vertical_fence |-> has_vertical_fence,
     pawn |-> pawn, turn |-> turn, is_ingame |-> is_ingame]

FreeSteps ==
    {sq \in UNION {OpenNeighbor(MoverPawn, d) : d \in Directions} :
       ~HoldsPawn(sq)}

\* The pawn squares start() sets: players[0] on the middle of the first row,
\* players[1] on the middle of the last row.
StartPawns == <<<<StartColumn, 0>>, <<StartColumn, Height - 1>>>>

C13_FlagsMonotonic ==
    [][Started =>
           /\ has_horizontal_fence \subseteq has_horizontal_fence'
           /\ has_vertical_fence \subseteq has_vertical_fence'
      ]_vars

\* C13's case: fences of both orientations were placed, turns were ended by
\* pawn moves and fence moves, and a pawn move has ended the game.
C13_Witness ==
    /\ Started
    /\ has_horizontal_fence # {}
    /\ has_vertical_fence # {}
    /\ ~is_ingame

\* The inputs whose move check_valid accepts.
AcceptedInputs(reach) ==
    {i \in MoveInputs : move_result(i[1][1], i[1][2], i[2], reach) = "accepted"}

\* C14: apply() of an accepted pawn move puts the current player's pawn on the
\* square of the move and leaves the other pawn and both flag sets as they
\* were; apply() of an accepted fence move adds the square of the move to the
\* flag set of its orientation and leaves the other flag set and both pawns as
\* they were.
C14_ApplyEffect ==
    Started =>
        \A reach \in {all_players_reach_goal(0)} :
            \A i \in AcceptedInputs(reach) :
                \E m \in {parse(i[1][1], i[1][2], i[2])} :
                \E after \in {Move_apply(m)} :
                    /\ m.kind = "pawn" =>
                           /\ after.pawn[current_player + 1] = m.square
                           /\ after.pawn[2 - current_player]
                                  = pawn[2 - current_player]
                           /\ after.has_horizontal_fence = has_horizontal_fence
                           /\ after.has_vertical_fence = has_vertical_fence
                    /\ m.kind = "horizontal" =>
                           /\ after.has_horizontal_fence
                                  = has_horizontal_fence \cup {m.square}
                           /\ after.has_vertical_fence = has_vertical_fence
                           /\ after.pawn = pawn
                    /\ m.kind = "vertical" =>
                           /\ after.has_vertical_fence
                                  = has_vertical_fence \cup {m.square}
                           /\ after.has_horizontal_fence = has_horizontal_fence
                           /\ after.pawn = pawn

\* C14's case: on a board that has fences of both orientations, a pawn move,
\* a horizontal and a vertical fence move are accepted.
C14_Witness ==
    /\ Started
    /\ has_horizontal_fence # {}
    /\ has_vertical_fence # {}
    /\ \A reach \in {all_players_reach_goal(0)} :
           \A suffix \in {"", "h", "v"} :
               \E i \in AcceptedInputs(reach) : i[2] = suffix

\* The inputs whose decoded column is outside 0 .. Width-1 or whose decoded
\* row is outside 0 .. Height-1.
OutOfRangeInputs == {i \in MoveInputs : i[1] \notin Squares}

\* C15 (as claimed): for every input with a coordinate out of range, Move.parse
\* raises instead of resolving the string to a square, and the call of
\* Game.move changes nothing.
C15_OutOfRangeIsParseError ==
    Started =>
        \A reach \in {all_players_reach_goal(0)} :
            \A i \in OutOfRangeInputs :
                /\ parse(i[1][1], i[1][2], i[2]).kind
                       \in {"IndexError", "ValueError"}
                /\ Game_move(i[1][1], i[1][2], i[2], reach) = GameState

\* C16 (as claimed): before start(), every call of Game.move raises and leaves
\* a state that differs from the state before the call.
C16_MoveBeforeStart_AsClaimed ==
    ~Started =>
        \A reach \in {all_players_reach_goal(0)} :
            \A i \in MoveInputs :
                /\ move_result(i[1][1], i[1][2], i[2], reach) = "Exception"
                /\ Game_move(i[1][1], i[1][2], i[2], reach) # GameState

\* C16 (amended): before start(), every call of Game.move raises and leaves
\* turn, is_ingame, the players and the board as they were.
C16_MoveBeforeStart ==
    ~Started =>
        \A reach \in {all_players_reach_goal(0)} :
            \A i \in MoveInputs :
                /\ move_result(i[1][1], i[1][2], i[2], reach) = "Exception"
                /\ Game_move(i[1][1], i[1][2], i[2], reach) = GameState

\* C16's case: the constructed game before start(), where a call with a well
\* formed pawn move, a fence move and a malformed string each raise.
C16_Witness ==
    /\ ~Started
    /\ pawn = <<>>
    /\ ~is_ingame
    /\ \A suffix \in {"", "h", "x"} :
           \E i \in MoveInputs :
               /\ i[2] = suffix
               /\ move_result(i[1][1], i[1][2], i[2], "True") = "Exception"

\* The fence inputs that pass the two flag tests of their check_valid.
FreeFenceInputs ==
    {i \in MoveInputs :
       \E m \in {parse(i[1][1], i[1][2], i[2])} :
           \/ /\ m.kind = "horizontal"
              /\ m.square \notin has_horizontal_fence
              /\ (east_square(m.square) = None
                  \/ east_square(m.square) \notin has_horizontal_fence)
           \/ /\ m.kind = "vertical"
              /\ m.square \notin has_vertical_fence
              /\ (south_square(m.square) = None
                  \/ south_square(m.square) \notin has_vertical_fence)}

\* C17: after start() every player's remaining_fences is n_fences divided by
\* n_players, however many fences have been placed; and a fence move that
\* passes the flag tests is accepted whenever every pawn can reach its goal
\* row, however many fences have been placed.
C17_InventoryNotEnforced ==
    Started =>
        /\ \A p \in 1 .. n_players :
               remaining_fences[p] = n_fences \div n_players
        /\ \A reach \in {all_players_reach_goal(0)} :
               reach = "True" =>
                   \A i \in FreeFenceInputs :
                       move_result(i[1][1], i[1][2], i[2], reach) = "accepted"

\* C17's case: the first mover has placed two fences and the other player
\* one, and a further fence move would be accepted.
C17_Witness ==
    /\ Started
    /\ turn = 4
    /\ FenceCount = 3
    /\ all_players_reach_goal(0) = "True"
    /\ FreeFenceInputs # {}

\* C18: for every square and direction whose neighbour exists, the fence query
\* from the square toward the neighbour and the query from the neighbour back
\* agree, and so do the two is_connected_with_square_at queries.
C18_EdgeBlockingSymmetric ==
    \A q \in QueriedEdges :
        /\ has_fence_at(q[1], q[2])
               <=> has_fence_at(square_at(q[1], q[2]), Opposite(q[2]))
        /\ is_connected_with_square_at(q[1], q[2])
               <=> is_connected_with_square_at(square_at(q[1], q[2]),
                                               Opposite(q[2]))

\* C18's case: an east-west edge is blocked by the vertical flag of the square
\* above it alone, and a north-south edge by the horizontal flag of the square
\* to its west alone.
C18_Witness ==
    /\ \E sq \in Squares :
           /\ east_square(sq) # None
           /\ sq \notin has_vertical_fence
           /\ north_square(sq) # None
           /\ north_square(sq) \in has_vertical_fence
    /\ \E sq \in Squares :
           /\ south_square(sq) # None
           /\ sq \notin has_horizontal_fence
           /\ west_square(sq) # None
           /\ west_square(sq) \in has_horizontal_fence

\* No pawn stands on a square of its owner's goal row.
NoPawnOnOwnGoal == \A i \in Players : pawn[i + 1] \notin goals(i)

\* The accepted input i is a pawn move to a square of the mover's goal row.
LandsOnGoal(i) ==
    /\ i[2] = ""
    /\ Board_getitem(i[1][1], i[1][2]) \in goals(current_player)

\* C19 (as claimed): while is_ingame is true no pawn is on its owner's goal
\* row; an accepted pawn move onto the mover's goal row sets is_ingame to
\* false and leaves the turn counter; every other accepted move adds one to
\* the turn counter and leaves is_ingame true.
C19_WinDetection ==
    Started =>
        /\ is_ingame => NoPawnOnOwnGoal
        /\ \A reach \in {all_players_reach_goal(0)} :
               \A i \in AcceptedInputs(reach) :
                   \E after \in {Game_move(i[1][1], i[1][2], i[2], reach)} :
                       IF LandsOnGoal(i)
                       THEN after.is_ingame = FALSE /\ after.turn = turn
                       ELSE after.turn = turn + 1 /\ after.is_ingame = TRUE

\* C20 (as claimed): once a win has set is_ingame to false, no call of
\* Game.move changes a pawn, a flag or the turn counter.
C20_FrozenAfterEnd ==
    [][(Started /\ ~is_ingame) =>
           /\ pawn' = pawn
           /\ has_horizontal_fence' = has_horizontal_fence
           /\ has_vertical_fence' = has_vertical_fence
           /\ turn' = turn
      ]_vars

=============================================================================
